---- MODULE Spec2Model ----
(***************************************************************************)
(* Model of the request admission controller (RateLimitMiddleware,         *)
(* backend/app/middleware/rate_limit.py) and of the real-time connection   *)
(* registry (ConnectionManager, backend/app/utils/websocket.py).           *)
(*                                                                         *)
(* Time is counted in ticks, TicksPerSec ticks to the second, so that the  *)
(* float arithmetic of time.time() keeps a fractional part and int()       *)
(* truncates something.                                                    *)
(***************************************************************************)
EXTENDS Integers, Sequences, FiniteSets, TLC

\* ------------------------------------------------------------------ bounds
TicksPerSec == 2
MaxRequests == 5
MaxConcRequests == 4
MaxInflight == 2
MaxProbeCount == 12
MaxProbeTime == 3

\* ------------------------------------------------------- program constants
WindowSeconds == 60
BurstSeconds == 10
SevereBlock == 300
ModerateBlock == 120
MinorBlock == 60
ResetSeconds == 60
DefaultRequestsPerMinute == 60
DefaultBurstSize == 10

Sec(s) == s * TicksPerSec

\* The keys _get_client_id can produce: user-scoped or address-scoped.
ClientIds == {"user:1", "ip:10.0.0.1"}
\* The one key the concurrent specification drives.
ConcClientIds == {"user:1"}

\* Deployed configurations (requests_per_minute, burst_size).
Configs == {<<5, 3>>, <<2, 2>>, <<3, 1>>, <<1, 1>>}

\* Gaps between consecutive arrivals: one tick, 1 s, 10 s, 59 s.
Deltas == {1, Sec(1), Sec(BurstSeconds), Sec(WindowSeconds - 1)}

VARIABLES
    requests_per_minute,  \* self.requests_per_minute
    burst_size,           \* self.burst_size
    clients,              \* self.clients: key -> requests, blocked_until, warning_sent
    clock,                \* the last value time.time() returned, in ticks
    log,                  \* per key, what dispatch decided and answered, in order
    inflight,             \* admitted requests suspended in `await call_next`
    probe                 \* input and result of one _calculate_block_duration call

rlvars == <<requests_per_minute, burst_size, clients, clock, log, inflight>>

\* An optional value: <<>> is None, <<v>> is v.
None == <<>>
Some(v) == <<v>>

\* =================================================== connection registry
\* ConnectionManager of backend/app/utils/websocket.py. Each call of the
\* manager runs as a coroutine of one task; a task is suspended only in
\* websocket.accept, websocket.send_text and websocket.close, and the code
\* between two such awaits runs without interruption.

MaxSockets == 3
MaxSerialSockets == 2
MaxCastSockets == 2
MaxSends == 2
MaxCasts == 1
MaxIdemSockets == 2
MaxIdemCalls == 4
MaxStalled == 1
MaxGone == 1
MaxCalls == 4
MaxNameCalls == 2
MaxPathSockets == 2

\* Identities are names split at "_", so that f"{user_id}_{n}" is Append.
Users == {<<"u1">>, <<"u2">>}
NoUser == <<>>
\* The role connect is given for an identity: that of its account.
RoleOf(user_id) == IF user_id = <<"u2">> THEN Some("hospital_staff") ELSE None
\* The roles connect may be given where the role is the caller's choice.
RoleArgs == {None, Some("hospital_staff")}
Tasks == {"t1", "t2"}

VARIABLES
    active_connections,   \* self.active_connections: connection id -> websocket
    user_connections,     \* self.user_connections: user id -> set of connection ids
    connection_user,      \* self.connection_user: connection id -> user id
    user_roles,           \* self.user_roles: user id -> role
    connection_count,     \* self.connection_count
    sockets,              \* the websocket objects: state, peer present, frames received
    stacks,               \* per task, the frames of its pending coroutine calls
    heap,                 \* counters for set objects and sends, ids issued so far
    sends,                \* per message of a send_personal_message call, what became of it
    calls,                \* the calls of the manager made so far, where they are counted
    history               \* what has happened so far, where a property needs it

wsvars == <<active_connections, user_connections, connection_user, user_roles,
            connection_count, sockets, stacks, heap, sends, calls, history>>

WSInit ==
    /\ active_connections = <<>>
    /\ user_connections = <<>>
    /\ connection_user = <<>>
    /\ user_roles = <<>>
    /\ connection_count = 0
    /\ sockets = <<>>
    /\ stacks = [t \in Tasks |-> <<>>]
    /\ heap = [nobj |-> 0, nsend |-> 0, issued |-> <<>>, ended |-> {}]
    /\ sends = <<>>
    /\ calls = 0
    /\ history = [noops |-> {}, offline |-> [u \in Users |-> 0], queue |-> <<>>,
                  stalled |-> {}, failed |-> {}, late |-> {}]

\* ---- AdvancedRateLimitMiddleware: one client, time in whole seconds.
MaxAdvArrivals == 4

PerMinute == 60
PerHour == 1000
PerDay == 10000
MinuteSeconds == 60
HourSeconds == 3600
DaySeconds == 86400
AdvancedBlock == 60

\* Gaps between arrivals, and how many requests arrive together.
AdvDeltas == {0, 30, 31}
AdvBursts == {1, PerMinute - 1}

VARIABLES
    advanced              \* self.clients[client_id], the clock, the answers given

\* A deque of timestamps is kept as runs [time, n] of n equal timestamps.
NewAdvClient ==
    [minute_window |-> <<>>, hour_window |-> <<>>, day_window |-> <<>>,
     blocked_until |-> None, violations |-> 0]

AdvancedInit ==
    advanced = [client |-> NewAdvClient, clock |-> 0, log |-> <<>>, arrivals |-> 0]


Max(a, b) == IF a >= b THEN a ELSE b

\* Python int() of a duration held in ticks: truncation toward zero, in seconds.
IntSeconds(x) == IF x >= 0 THEN x \div TicksPerSec ELSE -((-x) \div TicksPerSec)

\* defaultdict factory of self.clients
NewClient == [requests |-> <<>>, blocked_until |-> None, warning_sent |-> FALSE]

\* Mutant: a block, once set, never ends.
IsClientBlockedForever(cl, current_time) == cl.blocked_until # None

\* blocked_until is not None and current_time < blocked_until
IsClientBlocked(cl, current_time) ==
    cl.blocked_until # None /\ current_time < cl.blocked_until[1]

\* Mutant: the purge also drops a timestamp exactly 60 s old.
RECURSIVE CleanOldRequestsInclusive(_, _)
CleanOldRequestsInclusive(requests, current_time) ==
    IF requests # <<>> /\ requests[1] <= current_time - Sec(WindowSeconds)
    THEN CleanOldRequestsInclusive(Tail(requests), current_time)
    ELSE requests

RECURSIVE CleanOldRequests(_, _)
CleanOldRequests(requests, current_time) ==
    IF requests # <<>> /\ requests[1] < current_time - Sec(WindowSeconds)
    THEN CleanOldRequests(Tail(requests), current_time)
    ELSE requests

RecentRequests(requests, current_time) ==
    {i \in DOMAIN requests : current_time - requests[i] < Sec(BurstSeconds)}

\* Mutant: the per-minute comparison is off by one.
IsRateLimitedOffByOne(requests, current_time) ==
    \/ Len(requests) > requests_per_minute
    \/ Cardinality(RecentRequests(requests, current_time)) > burst_size

IsRateLimited(requests, current_time) ==
    \/ Len(requests) >= requests_per_minute
    \/ Cardinality(RecentRequests(requests, current_time)) > burst_size

\* Mutant: the escalation thresholds are compared with >=.
CalculateBlockDurationInclusive(request_count, rpm) ==
    IF request_count >= rpm * 2 THEN SevereBlock
    ELSE IF 2 * request_count >= 3 * rpm THEN ModerateBlock
    ELSE MinorBlock

\* request_count > rpm * 1.5 is compared on doubled integers.
CalculateBlockDuration(request_count, rpm) ==
    IF request_count > rpm * 2 THEN SevereBlock
    ELSE IF 2 * request_count > 3 * rpm THEN ModerateBlock
    ELSE MinorBlock

\* Mutant: the timestamp is recorded twice.
RecordRequestTwice(requests, current_time) ==
    Append(Append(requests, current_time), current_time)

RecordRequest(requests, current_time) == Append(requests, current_time)

\* blocked_until = current_time + block_duration
BlockedUntil(current_time, block_duration) == current_time + Sec(block_duration)

Remaining(cl) == Max(0, requests_per_minute - Len(cl.requests))

\* The synchronous part of dispatch, up to `await call_next`: the client's
\* new state and the decision taken.
Decision(cl, current_time) ==
    IF IsClientBlocked(cl, current_time)
    THEN [client |-> cl,
          outcome |-> "blocked",
          status |-> 429,
          retry_after |-> Some(IntSeconds(cl.blocked_until[1] - current_time)),
          count |-> None]
    ELSE LET cleaned == CleanOldRequests(cl.requests, current_time) IN
         IF IsRateLimited(cleaned, current_time)
         THEN LET block_duration ==
                      CalculateBlockDuration(Len(cleaned), requests_per_minute) IN
              [client |-> [requests |-> cleaned,
                           blocked_until |-> Some(BlockedUntil(current_time, block_duration)),
                           warning_sent |-> TRUE],
               outcome |-> "limited",
               status |-> 429,
               retry_after |-> Some(block_duration),
               count |-> Some(Len(cleaned))]
         ELSE LET recorded == RecordRequest(cleaned, current_time) IN
              [client |-> [requests |-> recorded,
                           blocked_until |-> cl.blocked_until,
                           warning_sent |-> IF Len(recorded) < requests_per_minute
                                            THEN FALSE ELSE cl.warning_sent],
               outcome |-> "admitted",
               status |-> 200,
               retry_after |-> None,
               count |-> Some(Len(cleaned))]

\* What the model remembers of one handled request: its arrival time, the
\* client's state before and after the synchronous part, and the answer.
LogEntry(cl, dec, current_time, remaining) ==
    [t |-> current_time, before |-> cl, after |-> dec.client,
     outcome |-> dec.outcome, status |-> dec.status,
     retry_after |-> dec.retry_after, count |-> dec.count,
     remaining |-> remaining,
     reset |-> IF dec.outcome = "admitted"
               THEN Some(IntSeconds(current_time + Sec(ResetSeconds))) ELSE None]

TotalRequests == Len(log["user:1"]) + Len(log["ip:10.0.0.1"])

RLInit ==
    /\ \E cfg \in Configs : requests_per_minute = cfg[1] /\ burst_size = cfg[2]
    /\ clients = [c \in ClientIds |-> NewClient]
    /\ clock = 0
    /\ log = [c \in ClientIds |-> <<>>]
    /\ inflight = <<>>

NoProbe == [request_count |-> 0, rpm |-> 0, current_time |-> 0, result |-> None]

\* One request handled to completion: call_next returns before the next
\* request of any client is decided.
Dispatch(c, d) ==
    LET current_time == clock + d
        dec == Decision(clients[c], current_time) IN
    /\ TotalRequests < MaxRequests
    /\ clock' = current_time
    /\ clients' = [clients EXCEPT ![c] = dec.client]
    /\ log' = [log EXCEPT ![c] = Append(@, LogEntry(clients[c], dec, current_time,
                   IF dec.outcome = "admitted" THEN Some(Remaining(dec.client)) ELSE None))]
    /\ UNCHANGED <<requests_per_minute, burst_size, inflight, probe, wsvars, advanced>>

Next == \E c \in ClientIds, d \in Deltas : Dispatch(c, d)

vars == <<rlvars, probe, wsvars, advanced>>

Init == RLInit /\ probe = NoProbe /\ WSInit /\ AdvancedInit

Spec == Init /\ [][Next]_vars

\* time.time() is the wall clock: an adjustment of the system time makes the
\* next reading smaller than the one before, by a second or by a minute.
Adjustments == {-Sec(1), -Sec(WindowSeconds)}

SkewNext ==
    \E c \in ClientIds, d \in Deltas \cup Adjustments :
        clock + d >= 0 /\ Dispatch(c, d)

SpecSkew == Init /\ [][SkewNext]_vars

\* ------------------------------------------ concurrent dispatch calls
\* The synchronous part of dispatch for one arriving request. An admitted
\* request is then suspended in `await call_next` while others are decided.
Arrive(c, d) ==
    LET current_time == clock + d
        dec == Decision(clients[c], current_time) IN
    /\ Len(log[c]) < MaxConcRequests
    /\ dec.outcome = "admitted" => Len(inflight) < MaxInflight
    /\ clock' = current_time
    /\ clients' = [clients EXCEPT ![c] = dec.client]
    /\ log' = [log EXCEPT ![c] = Append(@, LogEntry(clients[c], dec, current_time, None))]
    /\ inflight' = IF dec.outcome = "admitted"
                   THEN Append(inflight, [client |-> c, index |-> Len(log[c]) + 1])
                   ELSE inflight
    /\ UNCHANGED <<requests_per_minute, burst_size, probe, wsvars, advanced>>

\* call_next returns for the k-th suspended request: the headers are built
\* from the client's state as it is now.
Complete(k) ==
    LET r == inflight[k] IN
    /\ log' = [log EXCEPT ![r.client][r.index].remaining =
                   Some(Remaining(clients[r.client]))]
    /\ inflight' = [i \in 1..(Len(inflight) - 1) |->
                       IF i < k THEN inflight[i] ELSE inflight[i + 1]]
    /\ UNCHANGED <<requests_per_minute, burst_size, clients, clock, probe, wsvars, advanced>>

ConcNext ==
    \/ \E c \in ConcClientIds, d \in Deltas \cup {0} : Arrive(c, d)
    \/ \E k \in DOMAIN inflight : Complete(k)

SpecConc == Init /\ [][ConcNext]_vars

\* ------------------------------------- _calculate_block_duration alone
\* The violation branch of dispatch applied to a window of any length.
ProbeInit ==
    /\ RLInit
    /\ WSInit
    /\ AdvancedInit
    /\ \E n \in 0..MaxProbeCount, t \in 0..MaxProbeTime :
           probe = [request_count |-> n, rpm |-> requests_per_minute,
                    current_time |-> t, result |-> None]

ApplyBlock ==
    /\ probe.result = None
    /\ LET block_duration == CalculateBlockDuration(probe.request_count, probe.rpm) IN
       probe' = [probe EXCEPT !.result =
                    Some([block_duration |-> block_duration,
                          blocked_until |-> BlockedUntil(probe.current_time,
                                                         block_duration)])]
    /\ UNCHANGED <<rlvars, wsvars, advanced>>

SpecDuration == ProbeInit /\ [][ApplyBlock]_vars

\* ------------------------------------------ AdvancedRateLimitMiddleware
RECURSIVE WindowLen(_)
WindowLen(w) == IF w = <<>> THEN 0 ELSE w[1].n + WindowLen(Tail(w))

\* popleft while window[0] < cutoff; the timestamps never decrease.
RECURSIVE PopOld(_, _)
PopOld(w, cutoff) ==
    IF w # <<>> /\ w[1].time < cutoff THEN PopOld(Tail(w), cutoff) ELSE w

AppendStamp(w, now) ==
    IF w # <<>> /\ w[Len(w)].time = now
    THEN [w EXCEPT ![Len(w)].n = @ + 1]
    ELSE Append(w, [time |-> now, n |-> 1])

AdvIsClientBlocked(c, current_time) ==
    /\ c.blocked_until # None
    /\ c.blocked_until[1] # 0
    /\ current_time < c.blocked_until[1]

CleanWindows(c, current_time) ==
    [c EXCEPT !.minute_window = PopOld(@, current_time - MinuteSeconds),
              !.hour_window = PopOld(@, current_time - HourSeconds),
              !.day_window = PopOld(@, current_time - DaySeconds)]

CheckLimits(c) ==
    \/ WindowLen(c.minute_window) >= PerMinute
    \/ WindowLen(c.hour_window) >= PerHour
    \/ WindowLen(c.day_window) >= PerDay

AdvRecordRequest(c, current_time) ==
    [c EXCEPT !.minute_window = AppendStamp(@, current_time),
              !.hour_window = AppendStamp(@, current_time),
              !.day_window = AppendStamp(@, current_time)]

\* Mutant: a block that is running is not extended.
CreateRateLimitResponseOnce(c, current_time) ==
    [c EXCEPT !.blocked_until = IF @ # None /\ current_time < @[1]
                                THEN @ ELSE Some(current_time + AdvancedBlock),
              !.violations = @ + 1]

\* blocked_until = current_time + 60; violations += 1
CreateRateLimitResponse(c, current_time) ==
    [c EXCEPT !.blocked_until = Some(current_time + AdvancedBlock),
              !.violations = @ + 1]

\* dispatch: the client's state afterwards and whether call_next was reached.
AdvDispatch(c, current_time) ==
    IF AdvIsClientBlocked(c, current_time)
    THEN [client |-> CreateRateLimitResponse(c, current_time), admitted |-> FALSE]
    ELSE LET c1 == CleanWindows(c, current_time) IN
         IF CheckLimits(c1)
         THEN [client |-> CreateRateLimitResponse(c1, current_time), admitted |-> FALSE]
         ELSE [client |-> AdvRecordRequest(c1, current_time), admitted |-> TRUE]

\* The answers given, as runs of equal answers at one time.
AddAnswer(answers, now, admitted) ==
    IF /\ answers # <<>>
       /\ answers[Len(answers)].time = now
       /\ answers[Len(answers)].admitted = admitted
    THEN [answers EXCEPT ![Len(answers)].n = @ + 1]
    ELSE Append(answers, [time |-> now, admitted |-> admitted, n |-> 1])

\* n requests of the client dispatched one after another at the same time.
RECURSIVE Serve(_, _)
Serve(a, n) ==
    IF n = 0 THEN a
    ELSE LET r == AdvDispatch(a.client, a.clock) IN
         Serve([a EXCEPT !.client = r.client,
                         !.log = AddAnswer(@, a.clock, r.admitted)], n - 1)

AdvArrive(d, n) ==
    /\ advanced.arrivals < MaxAdvArrivals
    /\ advanced' = Serve([advanced EXCEPT !.clock = @ + d, !.arrivals = @ + 1], n)
    /\ UNCHANGED <<rlvars, probe, wsvars>>

AdvNext == \E d \in AdvDeltas, n \in AdvBursts : AdvArrive(d, n)

SpecAdv == Init /\ [][AdvNext]_vars

\* Arrivals that may also be a whole block length apart.
AdvGapNext ==
    \E d \in AdvDeltas \cup {AdvancedBlock}, n \in AdvBursts : AdvArrive(d, n)

SpecAdvGaps == Init /\ [][AdvGapNext]_vars

\* ---------------------------------------- connection registry: the machine

\* ---- dict: entries in insertion order; a deleted entry leaves a hole.
DictLive(d) == {i \in DOMAIN d : d[i].live}
DictHas(d, k) == \E i \in DictLive(d) : d[i].k = k
DictGet(d, k) == d[CHOOSE i \in DictLive(d) : d[i].k = k].v
DictSet(d, k, v) ==
    IF DictHas(d, k)
    THEN [i \in DOMAIN d |-> IF d[i].live /\ d[i].k = k THEN [d[i] EXCEPT !.v = v] ELSE d[i]]
    ELSE Append(d, [k |-> k, v |-> v, live |-> TRUE])
DictDel(d, k) ==
    [i \in DOMAIN d |-> IF d[i].live /\ d[i].k = k THEN [d[i] EXCEPT !.live = FALSE] ELSE d[i]]
DictLen(d) == Cardinality(DictLive(d))

FnPut(f, k, v) == [x \in DOMAIN f \cup {k} |-> IF x = k THEN v ELSE f[x]]
\* Mutant: del leaves the entry in the dict.
FnKeep(f, k) == f

\* del f[k]
FnDel(f, k) == [x \in DOMAIN f \ {k} |-> f[x]]

\* Mutant: the id is built from the identity alone.
ConnectionIdOfUser(user_id, n) == Append(user_id, "0")

\* connection_id = f"{user_id}_{self.connection_count}"
ConnectionId(user_id, n) == Append(user_id, ToString(n))

\* The elements of the set object `obj`; a set dropped from user_connections
\* was emptied before.
SetElems(uc, obj) ==
    IF \E i \in DictLive(uc) : uc[i].v.obj = obj
    THEN uc[CHOOSE i \in DictLive(uc) : uc[i].v.obj = obj].v.elems
    ELSE {}

\* Mutant: discard empties the user's whole set.
DiscardAll(elems, connection_id) == {}

\* self.user_connections[user_id].discard(connection_id)
Discard(elems, connection_id) == elems \ {connection_id}

NoSetIter == [obj |-> 0, used |-> 0, orig |-> {}, visited |-> {}]
NoDictIter == [pos |-> 0, used |-> 0, len |-> 0]
NoMessage == [type |-> "", id |-> 0, user_id |-> NoUser, connection_id |-> <<>>, role |-> None]

Frame(fn, pc) ==
    [fn |-> fn, pc |-> pc, ws |-> 0, user_id |-> NoUser, role |-> None,
     connection_id |-> <<>>, message |-> NoMessage, exclude_user |-> NoUser,
     sit |-> NoSetIter, dit |-> NoDictIter, disconnected |-> {}, cleanup |-> {}]

\* ---- the machine: shared state plus the stack of the running task.
Top(m) == m.stack[Len(m.stack)]
SetTop(m, f) == [m EXCEPT !.stack[Len(m.stack)] = f]
Push(m, f, g) == [m EXCEPT !.stack = Append([m.stack EXCEPT ![Len(m.stack)] = f], g)]
Pop(m) ==
    [m EXCEPT !.stack = SubSeq(m.stack, 1, Len(m.stack) - 1),
              !.status = IF Len(m.stack) = 1 THEN "done" ELSE "run"]
\* An exception no frame catches: the try blocks of the manager wrap only
\* send_text and close.
Raise(m) == [m EXCEPT !.stack = <<>>, !.status = "raised"]
Suspend(m, f) == [SetTop(m, f) EXCEPT !.status = "io"]

\* Iteration over a set of strings has no order the code can count on: the
\* candidates are taken in issue order rotated to start at `first`; started
\* at 1 it may also miss the elements added since it began.
IssueIndex(issued, c) == CHOOSE i \in DOMAIN issued : issued[i].id = c
Rank(i, first) == (i - first) % (MaxSockets + 1)
Pick(issued, cands, first) ==
    CHOOSE c \in cands : \A d \in cands :
        Rank(IssueIndex(issued, c), first) <= Rank(IssueIndex(issued, d), first)

\* NotificationMessage: its type and data; id numbers the messages of the
\* callers of send_personal_message, the manager's own carry 0.
NewMessage(type, id, user_id, connection_id, role) ==
    [type |-> type, id |-> id, user_id |-> user_id,
     connection_id |-> connection_id, role |-> role]

SendFrame(user_id, message) ==
    [Frame("send_personal_message", "start") EXCEPT
        !.user_id = user_id, !.message = message]

BroadcastFrame(role, message, exclude_user) ==
    [Frame("broadcast_to_role", "start") EXCEPT
        !.role = Some(role), !.message = message, !.exclude_user = exclude_user]

BroadcastAllFrame(message, exclude_user) ==
    [Frame("broadcast_to_all", "start") EXCEPT
        !.message = message, !.exclude_user = exclude_user]

DisconnectFrame(connection_id) ==
    [Frame("disconnect", "start") EXCEPT !.connection_id = connection_id]

\* Mutant: the acknowledgement does not say which connection it is for.
WelcomeAnon(connection_id) == NewMessage("connection", 0, NoUser, <<>>, None)

\* NotificationMessage(type="connection", ..., data={"connection_id": connection_id})
Welcome(connection_id) == NewMessage("connection", 0, NoUser, connection_id, None)

\* connect, after `await websocket.accept()`.
StepConnect(m, f) ==
    IF f.pc = "register" THEN
        LET connection_id == ConnectionId(f.user_id, m.cc)
            uc1 == IF DictHas(m.uc, f.user_id) THEN m.uc
                   ELSE DictSet(m.uc, f.user_id, [obj |-> m.nobj + 1, elems |-> {}])
            old == DictGet(uc1, f.user_id)
            uc2 == DictSet(uc1, f.user_id,
                           [old EXCEPT !.elems = @ \cup {connection_id}])
            welcome == Welcome(connection_id)
            m1 == [m EXCEPT !.ac = FnPut(m.ac, connection_id, f.ws),
                            !.cu = FnPut(m.cu, connection_id, f.user_id),
                            !.uc = uc2,
                            !.nobj = IF DictHas(m.uc, f.user_id) THEN @ ELSE @ + 1,
                            !.ur = IF f.role # None
                                   THEN DictSet(m.ur, f.user_id, f.role[1]) ELSE @,
                            !.cc = @ + 1,
                            !.issued = Append(@, [id |-> connection_id, ws |-> f.ws,
                                                  user_id |-> f.user_id,
                                                  role |-> f.role])] IN
        Push(m1, [f EXCEPT !.pc = "welcomed", !.connection_id = connection_id],
             SendFrame(f.user_id, welcome))
    ELSE IF f.pc = "welcomed" THEN
        LET online == NewMessage("user_online", 0, f.user_id, <<>>, f.role) IN
        Push(m, [f EXCEPT !.pc = "announced"],
             BroadcastFrame("hospital_staff", online, f.user_id))
    ELSE Pop(m)

\* Mutant: the role cache keeps the entry of an identity that went offline.
KeepRole(ur, user_id) == ur

\* if user_id in self.user_roles: del self.user_roles[user_id]
PurgeRole(ur, user_id) == IF DictHas(ur, user_id) THEN DictDel(ur, user_id) ELSE ur

\* Mutant: disconnect takes every id for a registered one.
KnownAlways(ac, connection_id) == FALSE

\* connection_id not in self.active_connections
Unknown(ac, connection_id) == connection_id \notin DOMAIN ac

\* Past its guard, disconnect looks the id up in active_connections, which
\* raises KeyError for an id that is not there.
StepDisconnect(m, f) ==
    IF f.pc = "start" THEN
        IF Unknown(m.ac, f.connection_id) THEN Pop(m)
        ELSE IF f.connection_id \notin DOMAIN m.ac THEN Raise(m)
        ELSE
            LET user_id == IF f.connection_id \in DOMAIN m.cu
                           THEN m.cu[f.connection_id] ELSE NoUser
                websocket == m.ac[f.connection_id]
                m1 == [m EXCEPT !.ac = FnDel(m.ac, f.connection_id),
                                !.cu = FnDel(m.cu, f.connection_id)]
                g == [f EXCEPT !.pc = "close", !.user_id = user_id, !.ws = websocket] IN
            IF user_id # NoUser /\ DictHas(m.uc, user_id) THEN
                LET old == DictGet(m.uc, user_id)
                    left == Discard(old.elems, f.connection_id) IN
                IF left = {} THEN
                    LET offline == NewMessage("user_offline", 0, user_id, <<>>, None) IN
                    Push([m1 EXCEPT !.uc = DictDel(m.uc, user_id),
                                    !.ur = PurgeRole(m.ur, user_id)],
                         g, BroadcastFrame("hospital_staff", offline, user_id))
                ELSE SetTop([m1 EXCEPT !.uc = DictSet(m.uc, user_id,
                                                     [old EXCEPT !.elems = left])], g)
            ELSE SetTop(m1, g)
    ELSE IF f.pc = "close" THEN Suspend(m, [f EXCEPT !.pc = "closing"])
    ELSE Pop(m)

StepSend(m, f, first) ==
    IF f.pc = "start" THEN
        IF ~DictHas(m.uc, f.user_id) THEN Pop(m)
        ELSE LET s == DictGet(m.uc, f.user_id) IN
             SetTop(m, [f EXCEPT !.pc = "loop", !.disconnected = {},
                           !.sit = [obj |-> s.obj, used |-> Cardinality(s.elems),
                                    orig |-> s.elems, visited |-> {}]])
    ELSE IF f.pc = "loop" THEN
        LET cur == SetElems(m.uc, f.sit.obj)
            cands == cur \ f.sit.visited IN
        IF Cardinality(cur) # f.sit.used THEN Raise(m)
        ELSE IF cands = {} \/ (cands \cap f.sit.orig = {} /\ first = 1)
        THEN SetTop(m, [f EXCEPT !.pc = "cleanup", !.cleanup = f.disconnected])
        ELSE LET c == Pick(m.issued, cands, first)
                 g == [f EXCEPT !.sit.visited = @ \cup {c}, !.connection_id = c] IN
             IF c \in DOMAIN m.ac
             THEN Suspend(m, [g EXCEPT !.pc = "sending", !.ws = m.ac[c]])
             ELSE SetTop(m, g)
    ELSE IF f.pc = "cleanup" THEN
        IF f.cleanup = {} THEN Pop(m)
        ELSE LET c == Pick(m.issued, f.cleanup, first) IN
             Push(m, [f EXCEPT !.cleanup = @ \ {c}], DisconnectFrame(c))
    ELSE Raise(m)

\* The first live entry of d after position pos, or 0.
NextLive(d, pos) ==
    IF \E i \in DictLive(d) : i > pos
    THEN CHOOSE i \in DictLive(d) : i > pos /\ \A j \in DictLive(d) : j > pos => i <= j
    ELSE 0

\* Mutant: exclude_user is ignored.
ExcludeNobody(user_id, exclude_user) == TRUE

\* user_id != exclude_user
NotExcluded(user_id, exclude_user) == user_id # exclude_user

\* broadcast_to_role iterates self.user_roles.items(), broadcast_to_all
\* iterates self.user_connections; both dicts are live during the loop.
StepBroadcast(m, f) ==
    LET d == IF f.fn = "broadcast_to_role" THEN m.ur ELSE m.uc IN
    IF f.pc = "start" THEN
        SetTop(m, [f EXCEPT !.pc = "loop",
                      !.dit = [pos |-> 0, used |-> DictLen(d), len |-> DictLen(d)]])
    ELSE
        LET i == NextLive(d, f.dit.pos) IN
        IF DictLen(d) # f.dit.used THEN Raise(m)
        ELSE IF i = 0 THEN Pop(m)
        ELSE IF f.dit.len = 0 THEN Raise(m)
        ELSE LET g == [f EXCEPT !.dit.pos = i, !.dit.len = @ - 1] IN
             IF /\ f.fn = "broadcast_to_role" => d[i].v = f.role[1]
                /\ NotExcluded(d[i].k, f.exclude_user)
             THEN Push(m, g, SendFrame(d[i].k, f.message))
             ELSE SetTop(m, g)

\* websocket_endpoint, after `await websocket_manager.connect(websocket,
\* user_id)`: it waits in receive_text until that raises, and its finally
\* clause calls disconnect with user_id as the argument.
EndpointFrame(ws, user_id) ==
    [Frame("websocket_endpoint", "connected") EXCEPT !.ws = ws, !.user_id = user_id]

StepEndpoint(m, f) ==
    IF f.pc = "connected" THEN Suspend(m, [f EXCEPT !.pc = "receiving"])
    ELSE IF f.pc = "finally"
    THEN Push(m, [f EXCEPT !.pc = "finished"], DisconnectFrame(f.user_id))
    ELSE [Pop(m) EXCEPT !.ended = @ \cup {f.ws}]

Step(m, first) ==
    LET f == Top(m) IN
    IF f.fn = "connect" THEN StepConnect(m, f)
    ELSE IF f.fn = "websocket_endpoint" THEN StepEndpoint(m, f)
    ELSE IF f.fn = "disconnect" THEN StepDisconnect(m, f)
    ELSE IF f.fn = "send_personal_message" THEN StepSend(m, f, first)
    ELSE StepBroadcast(m, f)

\* Run the task until it is suspended in an await, returns or raises.
RECURSIVE Run(_, _)
Run(m, first) ==
    IF m.status = "run"
    THEN CHOOSE r \in {Run(n, first) : n \in {Step(m, first)}} : TRUE
    ELSE m

\* websocket.send_text succeeds on an open socket whose peer is there.
CanSend(sock) == sock.state = "open" /\ sock.peer

\* The await the task is suspended in completes; a peer found gone stays gone.
IoComplete(m0, gone) ==
    LET f == Top(m0)
        m == IF gone THEN [m0 EXCEPT !.sockets[f.ws].peer = FALSE] ELSE m0 IN
    IF f.fn = "connect" THEN
        IF m.sockets[f.ws].peer
        THEN [SetTop(m, [f EXCEPT !.pc = "register"]) EXCEPT
                 !.sockets[f.ws].state = "open", !.status = "run"]
        ELSE Raise(m)
    ELSE IF f.fn = "send_personal_message" THEN
        IF CanSend(m.sockets[f.ws])
        THEN [SetTop(m, [f EXCEPT !.pc = "loop"]) EXCEPT
                 !.sockets[f.ws].inbox = Append(@, f.message), !.status = "run"]
        ELSE [SetTop(m, [f EXCEPT !.pc = "loop",
                            !.disconnected = @ \cup {f.connection_id}]) EXCEPT
                 !.status = "run",
                 !.sends = IF f.message.id \in DOMAIN m.sends
                           THEN [@ EXCEPT ![f.message.id].failed = @ \cup {f.connection_id}]
                           ELSE @]
    ELSE IF f.fn = "websocket_endpoint" THEN
        IF CanSend(m.sockets[f.ws]) THEN m
        ELSE [SetTop(m, [f EXCEPT !.pc = "finally"]) EXCEPT !.status = "run"]
    ELSE [SetTop(m, [f EXCEPT !.pc = "closed"]) EXCEPT
             !.sockets[f.ws].state = "closed", !.status = "run"]

\* ---- the operations of the manager as steps of the tasks.
\* Where a set iteration may start, given the channels issued so far and the
\* one a pending connect may add.
Firsts == 1..Max(1, IF Len(heap.issued) < MaxSockets THEN Len(heap.issued) + 1
                    ELSE MaxSockets)

IssuedIds == {heap.issued[i].id : i \in DOMAIN heap.issued}

\* The channels registered for user_id, by the primary maps.
ChannelsIn(ac, cu, user_id) == {c \in DOMAIN ac : c \in DOMAIN cu /\ cu[c] = user_id}
ChannelsOf(user_id) == ChannelsIn(active_connections, connection_user, user_id)
MembersIn(uc, user_id) == IF DictHas(uc, user_id) THEN DictGet(uc, user_id).elems ELSE {}

\* A new call runs in a task that has nothing pending; the tasks are alike,
\* so it is the first such one.
IdleTask ==
    IF stacks["t1"] = <<>> THEN "t1" ELSE IF stacks["t2"] = <<>> THEN "t2" ELSE "none"

Machine(t) ==
    [ac |-> active_connections, uc |-> user_connections, cu |-> connection_user,
     ur |-> user_roles, cc |-> connection_count, sockets |-> sockets,
     stack |-> stacks[t], status |-> "run", nobj |-> heap.nobj,
     issued |-> heap.issued, sends |-> sends, ended |-> heap.ended]

\* What a step of task t means for the sends on record: the call of t that
\* ended is closed, a pending send of another task whose user's channels
\* changed meanwhile is marked.
Settle(t, m) ==
    [k \in DOMAIN m.sends |->
        LET s == m.sends[k] IN
        IF s.status # "active" THEN s
        ELSE IF s.task = t
        THEN IF m.status = "io" THEN s
             ELSE [s EXCEPT !.status = IF m.status = "done" THEN "returned" ELSE "raised"]
        ELSE [s EXCEPT !.disturbed =
                 @ \/ ChannelsIn(m.ac, m.cu, s.user_id) # ChannelsOf(s.user_id)
                   \/ MembersIn(m.uc, s.user_id) # MembersIn(user_connections, s.user_id)]]

Commit(t, m) ==
    /\ active_connections' = m.ac
    /\ user_connections' = m.uc
    /\ connection_user' = m.cu
    /\ user_roles' = m.ur
    /\ connection_count' = m.cc
    /\ sockets' = m.sockets
    /\ stacks' = [stacks EXCEPT ![t] = m.stack]
    /\ heap' = [heap EXCEPT !.nobj = m.nobj, !.issued = m.issued,
                            !.nsend = Cardinality(DOMAIN m.sends),
                            !.ended = m.ended]
    /\ sends' = Settle(t, m)

\* await manager.connect(websocket, user_id, role): a new socket, and the
\* task is suspended in websocket.accept().
StartConnect(t, user_id, role) ==
    /\ t = IdleTask
    /\ sockets' = Append(sockets, [state |-> "connecting", peer |-> TRUE, inbox |-> <<>>])
    /\ stacks' = [stacks EXCEPT ![t] =
                     <<[Frame("connect", "accept") EXCEPT
                           !.ws = Len(sockets) + 1, !.user_id = user_id, !.role = role]>>]
    /\ UNCHANGED <<active_connections, user_connections, connection_user, user_roles,
                   connection_count, heap, sends, rlvars, probe, advanced>>

\* await manager.disconnect(connection_id), up to its first await.
StartDisconnect(t, connection_id, first) ==
    /\ t = IdleTask
    /\ Commit(t, Run([Machine(t) EXCEPT !.stack = <<DisconnectFrame(connection_id)>>], first))
    /\ UNCHANGED <<rlvars, probe, advanced>>

\* The channels a fan-out is aimed at when it is called.
Targets(kind, user_id, role, exclude_user) ==
    {c \in DOMAIN active_connections :
        /\ c \in DOMAIN connection_user
        /\ LET u == connection_user[c] IN
           IF kind = "send" THEN u = user_id
           ELSE /\ u # exclude_user
                /\ kind = "role" =>
                       DictHas(user_roles, u) /\ DictGet(user_roles, u) = role[1]}

\* The record kept of a fan-out a caller starts; of a broadcast also the
\* channels registered at the call.
SendRecord(t, kind, user_id, role, exclude_user) ==
    [task |-> t, kind |-> kind, user_id |-> user_id, role |-> role,
     exclude_user |-> exclude_user,
     start |-> Targets(kind, user_id, role, exclude_user), failed |-> {},
     channels |-> IF kind = "send" THEN {} ELSE DOMAIN active_connections,
     status |-> "active", disturbed |-> FALSE]

\* await manager.send_personal_message(user_id, message), up to its first await.
StartSend(t, user_id, first) ==
    /\ t = IdleTask
    /\ heap.nsend < MaxSends
    /\ LET m0 == Machine(t)
           message == NewMessage("notification", heap.nsend + 1, NoUser, <<>>, None)
           m1 == [m0 EXCEPT !.stack = <<SendFrame(user_id, message)>>,
                            !.sends = FnPut(sends, message.id,
                                           SendRecord(t, "send", user_id, None, NoUser))]
       IN Commit(t, Run(m1, first))
    /\ UNCHANGED <<rlvars, probe, advanced>>

\* await manager.broadcast_to_role(role, message, exclude_user), up to its
\* first await.
StartBroadcastRole(t, role, exclude_user, first) ==
    /\ t = IdleTask
    /\ heap.nsend < MaxCasts
    /\ LET m0 == Machine(t)
           message == NewMessage("notification", heap.nsend + 1, NoUser, <<>>, None)
           m1 == [m0 EXCEPT !.stack = <<BroadcastFrame(role, message, exclude_user)>>,
                            !.sends = FnPut(sends, message.id,
                                           SendRecord(t, "role", NoUser, Some(role),
                                                      exclude_user))]
       IN Commit(t, Run(m1, first))
    /\ UNCHANGED <<rlvars, probe, advanced>>

\* await manager.broadcast_to_all(message, exclude_user), up to its first await.
StartBroadcastAll(t, exclude_user, first) ==
    /\ t = IdleTask
    /\ heap.nsend < MaxCasts
    /\ LET m0 == Machine(t)
           message == NewMessage("notification", heap.nsend + 1, NoUser, <<>>, None)
           m1 == [m0 EXCEPT !.stack = <<BroadcastAllFrame(message, exclude_user)>>,
                            !.sends = FnPut(sends, message.id,
                                           SendRecord(t, "all", NoUser, None, exclude_user))]
       IN Commit(t, Run(m1, first))
    /\ UNCHANGED <<rlvars, probe, advanced>>

\* The await task t is suspended in completes, or fails because the peer has
\* gone, and t runs to its next await.
Resume(t, first, gone) ==
    /\ stacks[t] # <<>>
    /\ gone => /\ sockets[stacks[t][Len(stacks[t])].ws].peer
                  /\ Cardinality({w \in DOMAIN sockets : ~sockets[w].peer}) < MaxGone
    /\ \E m0 \in {[Machine(t) EXCEPT !.status = "io"]} :
           \E m1 \in {IoComplete(m0, gone)} :
               \E m \in {Run(m1, first)} : Commit(t, m)
    /\ UNCHANGED <<rlvars, probe, advanced>>

\* A call of the manager is started, with at most `cap` sockets ever opened.
Call(t, cap) ==
    \/ /\ Len(sockets) < cap
       /\ \E user_id \in Users : StartConnect(t, user_id, RoleOf(user_id))
    \/ \E connection_id \in IssuedIds, first \in Firsts :
           StartDisconnect(t, connection_id, first)
    \/ \E user_id \in Users, first \in Firsts : StartSend(t, user_id, first)

\* One call at a time: the caller awaits each call before the next.
SerialNext ==
    /\ \/ Call("t1", MaxSerialSockets)
       \/ \E first \in Firsts, gone \in BOOLEAN : Resume("t1", first, gone)
    /\ UNCHANGED <<calls, history>>

\* Calls of several tasks, interleaved at their awaits.
WSNext ==
    \/ /\ calls < MaxCalls
       /\ \E t \in Tasks : Call(t, MaxSockets)
       /\ calls' = calls + 1
       /\ UNCHANGED history
    \/ /\ \E t \in Tasks, first \in Firsts, gone \in BOOLEAN : Resume(t, first, gone)
       /\ UNCHANGED <<calls, history>>

\* The application installs the limiter with its defaults; it plays no part here.
InitWS ==
    /\ requests_per_minute = DefaultRequestsPerMinute
    /\ burst_size = DefaultBurstSize
    /\ clients = [c \in ClientIds |-> NewClient]
    /\ clock = 0
    /\ log = [c \in ClientIds |-> <<>>]
    /\ inflight = <<>>
    /\ probe = NoProbe
    /\ WSInit
    /\ AdvancedInit

SpecSerial == InitWS /\ [][SerialNext]_vars

\* Calls of the registry where the caller chooses the role of a connect.
RoleCall(t, cap) ==
    \/ /\ Len(sockets) < cap
       /\ \E user_id \in Users, role \in RoleArgs : StartConnect(t, user_id, role)
    \/ \E connection_id \in IssuedIds, first \in Firsts :
           StartDisconnect(t, connection_id, first)

\* The role broadcast that excludes an identity, one call at a time, every
\* peer staying there.
CastNext ==
    /\ \/ RoleCall("t1", MaxCastSockets)
       \/ \E exclude_user \in Users, first \in Firsts :
              StartBroadcastRole("t1", "hospital_staff", exclude_user, first)
       \/ \E first \in Firsts : Resume("t1", first, FALSE)
    /\ UNCHANGED <<calls, history>>

\* The role broadcast with exclude_user left at its default.
PurgeNext ==
    /\ \/ RoleCall("t1", MaxCastSockets)
       \/ \E first \in Firsts :
              StartBroadcastRole("t1", "hospital_staff", NoUser, first)
       \/ \E first \in Firsts : Resume("t1", first, FALSE)
    /\ UNCHANGED <<calls, history>>

\* Both broadcasts, one call at a time.
CastAllNext ==
    /\ \/ RoleCall("t1", MaxCastSockets)
       \/ \E exclude_user \in Users \cup {NoUser}, first \in Firsts :
              StartBroadcastRole("t1", "hospital_staff", exclude_user, first)
       \/ \E exclude_user \in Users \cup {NoUser}, first \in Firsts :
              StartBroadcastAll("t1", exclude_user, first)
       \/ \E first \in Firsts, gone \in BOOLEAN : Resume("t1", first, gone)
    /\ UNCHANGED <<calls, history>>

SpecCastAll == InitWS /\ [][CastAllNext]_vars

SpecCast == InitWS /\ [][CastNext]_vars

SpecPurge == InitWS /\ [][PurgeNext]_vars

SpecWS == InitWS /\ [][WSNext]_vars

\* Identities as the path gives them: also names with "_" and digits in
\* them, "u1_0" being a name and a possible channel id of "u1".
PathNames == {<<"u1">>, <<"u1", "0">>}

\* Connects of any of these identities and disconnects of any issued id,
\* the calls of two tasks interleaved at their awaits.
NameNext ==
    \/ /\ calls < MaxNameCalls
       /\ \/ \E t \in Tasks, user_id \in PathNames : StartConnect(t, user_id, None)
          \/ \E t \in Tasks, connection_id \in IssuedIds, first \in Firsts :
                 StartDisconnect(t, connection_id, first)
       /\ calls' = calls + 1
       /\ UNCHANGED history
    \/ /\ \E t \in Tasks, first \in Firsts, gone \in BOOLEAN : Resume(t, first, gone)
       /\ UNCHANGED <<calls, history>>

SpecNames == InitWS /\ [][NameNext]_vars

\* A client opens /ws/{user_id}: the endpoint runs in a task of its own and is
\* suspended in websocket.accept() inside connect.
StartEndpoint(t, user_id) ==
    /\ t = IdleTask
    /\ sockets' = Append(sockets, [state |-> "connecting", peer |-> TRUE, inbox |-> <<>>])
    /\ stacks' = [stacks EXCEPT ![t] =
                     <<EndpointFrame(Len(sockets) + 1, user_id),
                       [Frame("connect", "accept") EXCEPT
                           !.ws = Len(sockets) + 1, !.user_id = user_id]>>]
    /\ UNCHANGED <<active_connections, user_connections, connection_user, user_roles,
                   connection_count, heap, sends, rlvars, probe, advanced>>

\* The endpoints of the clients, interleaved at their awaits.
EndpointNext ==
    /\ \/ /\ Len(sockets) < MaxSockets
          /\ \E t \in Tasks, user_id \in Users : StartEndpoint(t, user_id)
       \/ \E t \in Tasks, first \in Firsts, gone \in BOOLEAN : Resume(t, first, gone)
    /\ UNCHANGED <<calls, history>>

SpecEndpoint == InitWS /\ [][EndpointNext]_vars

\* The endpoints of clients whose path names any of PathNames.
PathEndpointNext ==
    /\ \/ /\ Len(sockets) < MaxPathSockets
          /\ \E t \in Tasks, user_id \in PathNames : StartEndpoint(t, user_id)
       \/ \E t \in Tasks, first \in Firsts, gone \in BOOLEAN : Resume(t, first, gone)
    /\ UNCHANGED <<calls, history>>

SpecPaths == InitWS /\ [][PathEndpointNext]_vars

\* The ids disconnect is called with: those issued and one never issued.
DisconnectArgs == IssuedIds \cup {<<"u1", "x">>}

\* connect and disconnect called by several tasks; kept on record are the ids
\* disconnect was called with while they were not registered, and how often
\* each identity lost its last channel.
IdemNext ==
    \/ /\ calls < MaxIdemCalls
       /\ Len(sockets) < MaxIdemSockets
       /\ \E t \in Tasks, user_id \in Users : StartConnect(t, user_id, RoleOf(user_id))
       /\ calls' = calls + 1
       /\ UNCHANGED history
    \/ /\ calls < MaxIdemCalls
       /\ calls' = calls + 1
       /\ \E t \in Tasks, connection_id \in DisconnectArgs, first \in Firsts :
              /\ StartDisconnect(t, connection_id, first)
              /\ history' = [history EXCEPT
                                !.noops = IF connection_id \in DOMAIN active_connections
                                          THEN @ ELSE @ \cup {connection_id},
                                !.offline = [u \in Users |->
                                    IF ChannelsOf(u) # {} /\ ChannelsOf(u)' = {}
                                    THEN @[u] + 1 ELSE @[u]]]
    \/ /\ \E t \in Tasks, first \in Firsts : Resume(t, first, FALSE)
       /\ UNCHANGED <<calls, history>>

SpecIdem == InitWS /\ [][IdemNext]_vars

\* The websocket a suspended task waits for.
Awaited(t) == stacks[t][Len(stacks[t])].ws

\* The suspended tasks in the order they were suspended, after a step of t.
Requeue(t) ==
    LET Other(x) == x # t
        q == SelectSeq(history.queue, Other) IN
    history' = [history EXCEPT !.queue = IF stacks'[t] # <<>> THEN Append(q, t) ELSE q]

\* The sends on one websocket complete in the order they were started.
Foremost(t) ==
    \A i, j \in DOMAIN history.queue :
        (history.queue[j] = t /\ i < j) => Awaited(history.queue[i]) # Awaited(t)

\* Two tasks sending: a broadcast_to_all and sends to one identity.
OrderNext ==
    /\ \E t \in Tasks :
           /\ \/ /\ Len(sockets) < MaxCastSockets
                 /\ \E user_id \in Users : StartConnect(t, user_id, RoleOf(user_id))
              \/ \E first \in Firsts : StartBroadcastAll(t, NoUser, first)
              \/ \E user_id \in Users, first \in Firsts : StartSend(t, user_id, first)
              \/ /\ stacks[t] # <<>>
                 /\ Foremost(t)
                 /\ \E first \in Firsts : Resume(t, first, FALSE)
           /\ Requeue(t)
    /\ UNCHANGED calls

SpecOrder == InitWS /\ [][OrderNext]_vars

\* The peer of websocket w stops reading: a send_text on w, which has no
\* timeout, does not complete from now on.
Stall(w) ==
    /\ Cardinality(history.stalled) < MaxStalled
    /\ w \notin history.stalled
    /\ sockets[w].state = "open"
    /\ history' = [history EXCEPT !.stalled = @ \cup {w}]
    /\ UNCHANGED <<active_connections, user_connections, connection_user, user_roles,
                   connection_count, sockets, stacks, heap, sends, calls, rlvars,
                   probe, advanced>>

\* The await of task t completes, which it does not on a stalled websocket.
Proceed(t) ==
    /\ stacks[t] # <<>>
    /\ Awaited(t) \notin history.stalled
    /\ \E first \in Firsts : Resume(t, first, FALSE)
    /\ UNCHANGED <<calls, history>>

\* Sends and broadcasts, one call at a time, to peers that may stop reading.
StallNext ==
    \/ /\ Len(sockets) < MaxCastSockets
       /\ \E user_id \in Users : StartConnect("t1", user_id, RoleOf(user_id))
       /\ UNCHANGED <<calls, history>>
    \/ \E w \in DOMAIN sockets : Stall(w)
    \/ /\ \E first \in Firsts : StartBroadcastAll("t1", NoUser, first)
       /\ UNCHANGED <<calls, history>>
    \/ /\ \E user_id \in Users, first \in Firsts : StartSend("t1", user_id, first)
       /\ UNCHANGED <<calls, history>>
    \/ Proceed("t1")

\* The websockets on which a send_text has failed, after a step in which
\* the send task t was suspended in did or did not fail.
Failed(t, fails) ==
    IF fails /\ stacks[t][Len(stacks[t])].fn = "send_personal_message"
    THEN history.failed \cup {Awaited(t)} ELSE history.failed

\* Kept on record after a step of t: the websockets a send has failed on, and
\* those of them on which a send_text was started all the same.
Attempt(t, failed) ==
    history' = [history EXCEPT
        !.failed = failed,
        !.late = IF /\ stacks'[t] # <<>>
                    /\ stacks'[t][Len(stacks'[t])].fn = "send_personal_message"
                    /\ stacks'[t][Len(stacks'[t])].ws \in failed
                 THEN @ \cup {stacks'[t][Len(stacks'[t])].ws} ELSE @]

\* The await of t completes, the peer being there or gone.
Complete1(t) ==
    /\ stacks[t] # <<>>
    /\ \E first \in Firsts, gone \in BOOLEAN :
           /\ Resume(t, first, gone)
           /\ Attempt(t, Failed(t, gone \/ ~CanSend(sockets[Awaited(t)])))
    /\ UNCHANGED calls

\* connect, disconnect and send_personal_message, one call at a time.
CloseNext ==
    \/ /\ Call("t1", MaxSerialSockets)
       /\ Attempt("t1", history.failed)
       /\ UNCHANGED calls
    \/ Complete1("t1")

\* The calls made one after another, every await completing.
SpecClose == InitWS /\ [][CloseNext]_vars /\ WF_vars(Complete1("t1"))

\* Every await that can complete does complete.
SpecStall == InitWS /\ [][StallNext]_vars /\ WF_vars(Proceed("t1"))

\* is_user_connected
IsUserConnected(user_id) ==
    DictHas(user_connections, user_id)
        /\ Cardinality(DictGet(user_connections, user_id).elems) > 0

\* _get_connections_by_role: per role, the channels of the users cached with it.
RECURSIVE RoleCount(_, _, _, _)
RoleCount(ur, uc, role, i) ==
    IF i > Len(ur) THEN 0
    ELSE (IF ur[i].live /\ ur[i].v = role THEN Cardinality(MembersIn(uc, ur[i].k)) ELSE 0)
         + RoleCount(ur, uc, role, i + 1)

GetConnectionStats ==
    [total_connections |-> Cardinality(DOMAIN active_connections),
     unique_users |-> DictLen(user_connections),
     connections_by_role |->
         [role \in {user_roles[i].v : i \in DictLive(user_roles)} |->
             RoleCount(user_roles, user_connections, role, 1)]]

\* ------------------------------------------------- admission: the claims

Entries(c) == DOMAIN log[c]

\* The requests of c admitted before its i-th request whose timestamps are
\* at most `width` ticks older than that request's arrival.
AdmittedWithin(c, i, width) ==
    {j \in 1..(i - 1) : /\ log[c][j].outcome = "admitted"
                        /\ log[c][j].t >= log[c][i].t - width}

\* The same, with the window open at its old end.
AdmittedStrictlyWithin(c, i, width) ==
    {j \in 1..(i - 1) : /\ log[c][j].outcome = "admitted"
                        /\ log[c][j].t > log[c][i].t - width}

\* C1: once requests_per_minute requests of a client were admitted with
\* timestamps inside the rolling 60 s window (taken closed at its old end,
\* which covers the open reading too), the client's next request inside that
\* window is answered 429.
C1_PerMinuteCap ==
    \A c \in ClientIds : \A i \in Entries(c) :
        Cardinality(AdmittedWithin(c, i, Sec(WindowSeconds))) >= requests_per_minute
            => log[c][i].status = 429

\* A request denied by the per-minute rule itself: not blocked, the burst
\* rule silent, requests_per_minute admitted timestamps in the window.
C1_Witness ==
    \E c \in ClientIds : \E i \in Entries(c) :
        /\ Cardinality(AdmittedWithin(c, i, Sec(WindowSeconds))) >= requests_per_minute
        /\ log[c][i].outcome = "limited"
        /\ Cardinality(AdmittedStrictlyWithin(c, i, Sec(BurstSeconds))) <= burst_size
        /\ log[c][i].status = 429

\* C2: once burst_size requests of a client were admitted inside one 10 s
\* span, the client's next request inside that span is answered 429.
C2_BurstCap ==
    \A c \in ClientIds : \A i \in Entries(c) :
        Cardinality(AdmittedStrictlyWithin(c, i, Sec(BurstSeconds))) >= burst_size
            => log[c][i].status = 429

\* C3: after a denial at time t with retry_after = r, every request of that
\* client arriving in [t, t + r) is denied, and the first one arriving at or
\* after t + r is not denied by the block check.
C3_DeniedUntilRetryAfter ==
    \A c \in ClientIds : \A i \in Entries(c) :
        log[c][i].status = 429 =>
            LET until == log[c][i].t + Sec(log[c][i].retry_after[1]) IN
            \A k \in Entries(c) : k > i =>
                /\ log[c][k].t < until => log[c][k].status = 429
                /\ (/\ log[c][k].t >= until
                    /\ \A m \in (i + 1)..(k - 1) : log[c][m].t < until)
                       => log[c][k].outcome # "blocked"

\* C5: the occupancy left by the purge at time now is the number of admitted
\* timestamps strictly greater than now - 60 s.
C5_PurgeStrict ==
    \A c \in ClientIds : \A i \in Entries(c) :
        log[c][i].count # None =>
            log[c][i].count[1] =
                Cardinality(AdmittedStrictlyWithin(c, i, Sec(WindowSeconds)))

\* C5, as amended: the occupancy left by the purge at time now is the number
\* of admitted timestamps greater than or equal to now - 60 s; a timestamp
\* exactly 60 s old is still counted.
C5_PurgeInclusive ==
    \A c \in ClientIds : \A i \in Entries(c) :
        log[c][i].count # None =>
            log[c][i].count[1] = Cardinality(AdmittedWithin(c, i, Sec(WindowSeconds)))

\* The purge ran with one admitted timestamp exactly 60 s old, kept, and an
\* older one, dropped.
C5_Witness ==
    \E c \in ClientIds : \E i \in Entries(c) :
        /\ log[c][i].count # None
        /\ \E j \in 1..(i - 1) : /\ log[c][j].outcome = "admitted"
                                 /\ log[c][j].t = log[c][i].t - Sec(WindowSeconds)
        /\ \E j \in 1..(i - 1) : /\ log[c][j].outcome = "admitted"
                                 /\ log[c][j].t < log[c][i].t - Sec(WindowSeconds)
        /\ Len(log[c][i].after.requests) < Len(log[c][i].before.requests) + 1

\* C6: with requests_per_minute = 5 and burst_size = 3, a fresh client whose
\* first three requests fall within 1 s and whose 4th comes 2 s after the
\* first gets 200 three times with remaining 2, 1, 0 and then 429 with
\* retry_after 60.
C6_Scenario ==
    \A c \in ClientIds :
        (/\ requests_per_minute = 5 /\ burst_size = 3
         /\ Len(log[c]) >= 4
         /\ log[c][3].t - log[c][1].t <= Sec(1)
         /\ log[c][4].t = log[c][1].t + Sec(2))
        => /\ \A i \in 1..3 : log[c][i].status = 200
           /\ log[c][1].remaining = Some(2)
           /\ log[c][2].remaining = Some(1)
           /\ log[c][3].remaining = Some(0)
           /\ log[c][4].status = 429
           /\ log[c][4].retry_after = Some(60)

\* C7: a request arriving while now < blockedUntil is denied with
\* retry_after = blockedUntil - now and leaves the client's window,
\* blockedUntil and warning flag as they were.
C7_BlockedRequest ==
    \A c \in ClientIds : \A i \in Entries(c) :
        IsClientBlocked(log[c][i].before, log[c][i].t) =>
            /\ log[c][i].status = 429
            /\ Sec(log[c][i].retry_after[1]) =
                   log[c][i].before.blocked_until[1] - log[c][i].t
            /\ log[c][i].after = log[c][i].before

\* The part of C7 the code keeps: a request arriving during a block is
\* denied and changes nothing of the client's state.
C7_FrameOnly ==
    \A c \in ClientIds : \A i \in Entries(c) :
        IsClientBlocked(log[c][i].before, log[c][i].t) =>
            /\ log[c][i].status = 429
            /\ log[c][i].after = log[c][i].before

\* C4: on a violation the block lasts 300 s when the window count c exceeds
\* 2N, 120 s when it exceeds 1.5N, 60 s otherwise, and blockedUntil is the
\* current time plus that duration.
C4_Escalation ==
    probe.result # None =>
        LET c == probe.request_count
            n == probe.rpm
            expected == IF c > 2 * n THEN 300
                        ELSE IF 2 * c > 3 * n THEN 120
                        ELSE 60 IN
        /\ probe.result[1].block_duration = expected
        /\ probe.result[1].blocked_until = probe.current_time + expected * TicksPerSec

\* A moderate violation was blocked: a count above 1.5N and at most 2N.
C4_Witness ==
    /\ probe.result # None
    /\ 2 * probe.request_count > 3 * probe.rpm
    /\ probe.request_count <= 2 * probe.rpm
    /\ probe.result[1].block_duration = 120

\* The timestamps of the first n requests of c that were admitted, in order.
RECURSIVE AdmittedTimes(_, _)
AdmittedTimes(c, n) ==
    IF n = 0 THEN <<>>
    ELSE IF log[c][n].outcome = "admitted"
         THEN Append(AdmittedTimes(c, n - 1), log[c][n].t)
         ELSE AdmittedTimes(c, n - 1)

\* The arrival time of the last request of c for which the purge ran.
RECURSIVE LastPurge(_, _)
LastPurge(c, n) ==
    IF n = 0 THEN None
    ELSE IF log[c][n].count # None THEN Some(log[c][n].t)
         ELSE LastPurge(c, n - 1)

KeptTimes(c) ==
    LET purge == LastPurge(c, Len(log[c]))
        Kept(t) == purge = None \/ t >= purge[1] - Sec(WindowSeconds) IN
    SelectSeq(AdmittedTimes(c, Len(log[c])), Kept)

\* The client state a one-at-a-time run of the first n requests of c yields.
RECURSIVE Replay(_, _)
Replay(c, n) ==
    IF n = 0 THEN NewClient
    ELSE Decision(Replay(c, n - 1), log[c][n].t).client

\* C8: however the dispatch calls of one key interleave, the window holds
\* exactly one timestamp per admitted request not yet purged, never more
\* than requests_per_minute of them, and every decision is the one a
\* one-at-a-time run of the same requests takes.
C8_Serializable ==
    \A c \in ClientIds :
        /\ clients[c].requests = KeptTimes(c)
        /\ Len(clients[c].requests) <= requests_per_minute
        /\ clients[c] = Replay(c, Len(log[c]))
        /\ \A i \in Entries(c) :
               log[c][i].outcome = Decision(Replay(c, i - 1), log[c][i].t).outcome

\* Two admitted requests of one key are suspended in call_next at once, the
\* window is full, and a third request of that key was decided meanwhile.
C8_Witness ==
    \E c \in ClientIds :
        /\ Len(inflight) >= 2
        /\ \A k \in DOMAIN inflight : inflight[k].client = c
        /\ Len(clients[c].requests) = requests_per_minute
        /\ log[c][Len(log[c])].outcome = "limited"

\* ------------------------------------------------- registry: the claims

\* The socket a connection id was issued for, and the copies of message k a
\* socket has received.
SocketOf(c) == heap.issued[IssueIndex(heap.issued, c)].ws
Copies(w, k) == Cardinality({i \in DOMAIN sockets[w].inbox : sockets[w].inbox[i].id = k})
Registered(c) == c \in DOMAIN active_connections

\* C9: a send_personal_message(u, m) on whose channels no send fails delivers
\* m once to each channel registered for u when it is called and to no other
\* socket: to both of two registered channels, and after one of them is
\* unregistered to the remaining one only, never to the removed one.
C9_ExactDelivery ==
    \A k \in DOMAIN sends :
        LET s == sends[k] IN
        (s.status # "active" /\ ~s.disturbed /\ s.failed = {}) =>
            /\ s.status = "returned"
            /\ \A w \in DOMAIN sockets :
                   Copies(w, k) = IF \E c \in s.start : SocketOf(c) = w THEN 1 ELSE 0

\* Two sends to one identity: the first with two channels, both served; the
\* second after one of the two was unregistered, served to the other only.
C9_Witness ==
    \E k1, k2 \in DOMAIN sends :
        /\ k1 < k2
        /\ sends[k1].user_id = sends[k2].user_id
        /\ sends[k1].status = "returned" /\ sends[k2].status = "returned"
        /\ sends[k1].failed = {} /\ sends[k2].failed = {}
        /\ Cardinality(sends[k1].start) = 2
        /\ \E kept, removed \in sends[k1].start :
               /\ kept # removed
               /\ sends[k2].start = {kept}
               /\ ~Registered(removed)
               /\ Copies(SocketOf(kept), k1) = 1 /\ Copies(SocketOf(kept), k2) = 1
               /\ Copies(SocketOf(removed), k1) = 1 /\ Copies(SocketOf(removed), k2) = 0

\* C10: when a send of send_personal_message(u, m) fails on a channel, every
\* other channel of u, registered at the call and still registered with its
\* peer there, has received m once the call is over, and once the call has
\* returned the failed channel is in no map of the registry and is in no
\* count of get_connection_stats.
C10_FailureIsolated ==
    \A k \in DOMAIN sends :
        LET s == sends[k] IN
        (s.status # "active" /\ s.failed # {}) =>
            /\ \A c \in s.start \ s.failed :
                   (Registered(c) /\ CanSend(sockets[SocketOf(c)]))
                       => Copies(SocketOf(c), k) = 1
            /\ s.status = "returned" =>
                   \A c \in s.failed :
                       /\ c \notin DOMAIN active_connections
                       /\ c \notin DOMAIN connection_user
                       /\ \A i \in DictLive(user_connections) :
                              c \notin user_connections[i].v.elems
                       /\ GetConnectionStats.total_connections
                              = Cardinality(DOMAIN active_connections \ s.failed)

\* The identity a connection id was issued to.
Owner(c) == heap.issued[IssueIndex(heap.issued, c)].user_id

\* C11: when a send fails on a channel during broadcast_to_role or
\* broadcast_to_all, the call returns without raising and every channel aimed
\* at that belongs to another identity than the failed one, is still
\* registered and has its peer, has received the message.
C11_BroadcastIsolated ==
    \A k \in DOMAIN sends :
        LET s == sends[k] IN
        (s.kind # "send" /\ s.status # "active" /\ s.failed # {}) =>
            /\ s.status = "returned"
            /\ \A c \in s.start :
                   (/\ \A x \in s.failed : Owner(x) # Owner(c)
                    /\ Registered(c)
                    /\ CanSend(sockets[SocketOf(c)]))
                       => Copies(SocketOf(c), k) = 1

\* C12: once the endpoint of a channel has run its cleanup after the
\* transport ended, the channel's id is in none of active_connections,
\* connection_user and user_connections, and an identity with no other
\* channel is not reported connected.
C12_EndpointCleansUp ==
    \A i \in DOMAIN heap.issued :
        LET c == heap.issued[i].id
            u == heap.issued[i].user_id IN
        heap.issued[i].ws \in heap.ended =>
            /\ c \notin DOMAIN active_connections
            /\ c \notin DOMAIN connection_user
            /\ c \notin MembersIn(user_connections, u)
            /\ MembersIn(user_connections, u) \ {c} = {} => ~IsUserConnected(u)

\* The sockets of the channels issued to user_id so far.
SocketsOf(user_id) ==
    {heap.issued[i].ws : i \in {j \in DOMAIN heap.issued : heap.issued[j].user_id = user_id}}

\* The copies of the role broadcasts' messages in the inbox of socket w.
RoleCopies(w) ==
    Cardinality({i \in DOMAIN sockets[w].inbox :
                    /\ sockets[w].inbox[i].id \in DOMAIN sends
                    /\ sends[sockets[w].inbox[i].id].kind = "role"})

\* C13: the step of disconnect that removes the last channel of u also
\* removes u's entry of user_roles; an entry of u comes back only by a connect
\* of u with a role; and in a step that starts with no entry for u, no
\* message of a broadcast_to_role reaches a socket of u.
C13_PurgedWithLastChannel ==
    [][\A u \in Users :
          /\ (ChannelsOf(u) # {} /\ ChannelsOf(u)' = {}) => ~DictHas(user_roles, u)'
          /\ (~DictHas(user_roles, u) /\ DictHas(user_roles, u)') =>
                 \E t \in Tasks :
                     /\ stacks[t] # <<>>
                     /\ LET f == stacks[t][Len(stacks[t])] IN
                        f.fn = "connect" /\ f.user_id = u /\ f.role # None
          /\ ~DictHas(user_roles, u) =>
                 \A w \in SocketsOf(u)' :
                     RoleCopies(w)' = IF w \in SocketsOf(u) THEN RoleCopies(w) ELSE 0
      ]_vars

\* A role broadcast has returned that was called while u, once registered as
\* hospital_staff and gone offline since, was back with a channel registered
\* without a role: that channel got nothing, a staff channel would have.
C13_Witness ==
    \E k \in DOMAIN sends, i, j \in DOMAIN heap.issued :
        /\ sends[k].kind = "role" /\ sends[k].status = "returned"
        /\ i < j
        /\ heap.issued[i].user_id = heap.issued[j].user_id
        /\ heap.issued[i].user_id # sends[k].exclude_user
        /\ heap.issued[i].role = Some("hospital_staff")
        /\ heap.issued[j].role = None
        /\ heap.issued[i].id \notin sends[k].channels
        /\ heap.issued[j].id \in sends[k].channels
        /\ ~DictHas(user_roles, heap.issued[j].user_id)
        /\ Copies(heap.issued[j].ws, k) = 0

\* C14: a message of broadcast_to_role(r, m, exclude_user = u) is in the
\* inbox of no socket of a channel issued to u, whatever u's cached role.
C14_ExcludedGetsNothing ==
    \A k \in DOMAIN sends :
        sends[k].kind = "role" =>
            \A w \in SocketsOf(sends[k].exclude_user) : Copies(w, k) = 0

\* A broadcast to hospital_staff excluding u has returned; u was registered
\* as hospital_staff when it was called, and the channel of another staff
\* identity got the message.
C14_Witness ==
    \E k \in DOMAIN sends, i, j \in DOMAIN heap.issued :
        /\ sends[k].kind = "role" /\ sends[k].status = "returned"
        /\ heap.issued[i].user_id = sends[k].exclude_user
        /\ heap.issued[i].role = Some("hospital_staff")
        /\ heap.issued[i].id \in sends[k].channels
        /\ heap.issued[j].user_id # sends[k].exclude_user
        /\ heap.issued[j].id \in sends[k].start
        /\ Copies(heap.issued[j].ws, k) = 1
        /\ Copies(heap.issued[i].ws, k) = 0

\* The user_offline announcements about user_id in the inbox of socket w.
OfflineCopies(w, user_id) ==
    Cardinality({i \in DOMAIN sockets[w].inbox :
                    /\ sockets[w].inbox[i].type = "user_offline"
                    /\ sockets[w].inbox[i].user_id = user_id})

\* C15: a call of disconnect with an id that is not registered returns at
\* once and leaves the registry's maps and every socket (its inbox, its
\* state) as they were; and no socket holds more user_offline announcements
\* about an identity than the times that identity lost its last channel.
C15_Idempotent ==
    [][/\ \A t \in Tasks, c \in DisconnectArgs, first \in Firsts :
            (c \notin DOMAIN active_connections /\ StartDisconnect(t, c, first)) =>
                /\ UNCHANGED <<active_connections, user_connections, connection_user,
                               user_roles, connection_count, sockets>>
                /\ Run([Machine(t) EXCEPT !.stack = <<DisconnectFrame(c)>>],
                       first).status = "done"
       /\ \A w \in DOMAIN sockets', u \in Users :
              OfflineCopies(w, u)' <= history.offline[u]'
      ]_vars

\* While a task is still inside disconnect(c), having removed the last
\* channel of its identity and announced it once, disconnect has been called
\* again with c.
C15_Witness ==
    \E t \in Tasks, c \in IssuedIds :
        /\ stacks[t] # <<>>
        /\ stacks[t][1].fn = "disconnect" /\ stacks[t][1].connection_id = c
        /\ c \in history.noops
        /\ history.offline[Owner(c)] = 1
        /\ \E w \in DOMAIN sockets : OfflineCopies(w, Owner(c)) = 1

\* The connect that issued c is still inside its welcome send.
InWelcome(c) ==
    \E t \in Tasks : \E j \in DOMAIN stacks[t] :
        /\ stacks[t][j].fn = "connect"
        /\ stacks[t][j].connection_id = c
        /\ stacks[t][j].pc = "welcomed"

\* The 'connection' acknowledgements for channel c in the inbox of socket w.
AckCopies(w, c) ==
    Cardinality({i \in DOMAIN sockets[w].inbox :
                    /\ sockets[w].inbox[i].type = "connection"
                    /\ sockets[w].inbox[i].connection_id = c})

\* The user_online announcements about user_id in the inbox of socket w.
OnlineCopies(w, user_id) ==
    Cardinality({i \in DOMAIN sockets[w].inbox :
                    /\ sockets[w].inbox[i].type = "user_online"
                    /\ sockets[w].inbox[i].user_id = user_id})

\* The channels issued to user_id whose connect is past its welcome send.
Welcomed(user_id) ==
    {i \in DOMAIN heap.issued :
        heap.issued[i].user_id = user_id /\ ~InWelcome(heap.issued[i].id)}

\* C16: a channel that got an acknowledgement is registered by then (it has
\* its id); once connect is past its welcome send, the new channel, if its
\* peer is there, has received one 'connection' message with its own id; a
\* socket holds no more user_online announcements about u than connects of u
\* are past that point; and no socket of u holds an announcement about u.
C16_AckThenAnnounce ==
    /\ \A i \in DOMAIN heap.issued :
           LET e == heap.issued[i] IN
           /\ (~InWelcome(e.id) /\ sockets[e.ws].peer) => AckCopies(e.ws, e.id) = 1
           /\ OnlineCopies(e.ws, e.user_id) = 0
    /\ \A w \in DOMAIN sockets, u \in Users :
           OnlineCopies(w, u) <= Cardinality(Welcomed(u))

\* u1 has connected while the staff identity u2 was there: u1's channel holds
\* its acknowledgement and nothing else, u2's channel the announcement.
C16_Witness ==
    \E i, j \in DOMAIN heap.issued :
        LET e == heap.issued[i]
            g == heap.issued[j] IN
        /\ e.user_id # g.user_id
        /\ DictHas(user_roles, g.user_id)
        /\ \A t \in Tasks : stacks[t] = <<>>
        /\ Registered(e.id)
        /\ sockets[e.ws].inbox = <<Welcome(e.id)>>
        /\ OnlineCopies(g.ws, e.user_id) = 1

\* C17: the messages of the callers are numbered in the order their sends
\* and broadcasts were called, and every inbox holds them in that order.
C17_InCallOrder ==
    \A w \in DOMAIN sockets :
        \A i, j \in DOMAIN sockets[w].inbox :
            (i < j /\ sockets[w].inbox[i].id > 0 /\ sockets[w].inbox[j].id > 0)
                => sockets[w].inbox[i].id < sockets[w].inbox[j].id

\* The requests admitted before run i of the log within the last `window`
\* seconds of it.
RECURSIVE AdmittedBefore(_, _, _)
AdmittedBefore(i, j, window) ==
    IF j = 0 THEN 0
    ELSE (IF /\ advanced.log[j].admitted
             /\ advanced.log[j].time >= advanced.log[i].time - window
          THEN advanced.log[j].n ELSE 0) + AdmittedBefore(i, j - 1, window)

\* C18: a request to the multi-tier limiter is denied exactly when the
\* requests admitted within the last 60 s, 3600 s or 86400 s fill that tier,
\* and no denial ever sets blocked_until.
C18_DeniedOnlyAtCapacity ==
    /\ advanced.client.blocked_until = None
    /\ \A i \in DOMAIN advanced.log :
           LET r == advanced.log[i]
               minute == AdmittedBefore(i, i - 1, MinuteSeconds)
               hour == AdmittedBefore(i, i - 1, HourSeconds)
               day == AdmittedBefore(i, i - 1, DaySeconds) IN
           IF r.admitted
           THEN /\ minute + r.n - 1 < PerMinute
                /\ hour + r.n - 1 < PerHour
                /\ day + r.n - 1 < PerDay
           ELSE minute >= PerMinute \/ hour >= PerHour \/ day >= PerDay

\* The message of fan-out k has reached every channel it was aimed at that is
\* open, has its peer and has not stopped reading.
FannedOut(k) ==
    /\ k \in DOMAIN sends
    /\ \A c \in sends[k].start :
           (/\ SocketOf(c) \notin history.stalled
            /\ CanSend(sockets[SocketOf(c)]))
               => Copies(SocketOf(c), k) >= 1

\* C19: whatever channel stops reading, a send_personal_message or broadcast
\* that has been called eventually has delivered its message to every other
\* open channel it was aimed at.
C19_SlowChannelStallsNobody ==
    \A k \in 1..MaxSends : (k \in DOMAIN sends) ~> FannedOut(k)

\* The channel of issue i is no longer registered and its websocket closed.
Closed(i) ==
    /\ i \in DOMAIN heap.issued
    /\ ~Registered(heap.issued[i].id)
    /\ sockets[heap.issued[i].ws].state = "closed"

\* C20: no send_text is started on a websocket on which a send has failed;
\* a channel on which a send has failed is eventually unregistered and
\* closed; and a channel no longer registered is eventually closed.
C20_ClosedIsTerminal ==
    /\ [](history.late = {})
    /\ \A i \in 1..MaxSerialSockets :
           /\ (i \in DOMAIN heap.issued /\ heap.issued[i].ws \in history.failed)
                  ~> Closed(i)
           /\ (i \in DOMAIN heap.issued /\ ~Registered(heap.issued[i].id))
                  ~> Closed(i)

\* C21: a send_personal_message that has ended, whatever connects and
\* disconnects ran while it was suspended, has returned without raising and
\* has sent, with or without success, on every channel that was registered
\* for the identity when it was called and still is.
C21_SnapshotFanOut ==
    \A k \in DOMAIN sends :
        LET s == sends[k] IN
        s.status # "active" =>
            /\ s.status = "returned"
            /\ \A c \in s.start :
                   Registered(c) => (c \in s.failed \/ Copies(SocketOf(c), k) >= 1)

\* The sum of the sizes of the channel sets of the live entries of
\* user_connections from position i on.
RECURSIVE SumSizes(_, _)
SumSizes(uc, i) ==
    IF i > Len(uc) THEN 0
    ELSE (IF uc[i].live THEN Cardinality(uc[i].v.elems) ELSE 0) + SumSizes(uc, i + 1)

\* C22: in every state between two steps of the event loop the four maps of
\* the registry agree: active_connections and connection_user have the same
\* keys, a channel id is in user_connections[u] exactly when connection_user
\* maps it to u, no identity is mapped to an empty set, every identity of the
\* role cache has a channel, and total_connections is the sum of the sizes of
\* the identities' channel sets.
C22_RegistryConsistent ==
    /\ DOMAIN active_connections = DOMAIN connection_user
    /\ \A i \in DictLive(user_connections) :
           /\ user_connections[i].v.elems # {}
           /\ \A c \in user_connections[i].v.elems :
                  c \in DOMAIN connection_user
                      /\ connection_user[c] = user_connections[i].k
    /\ \A c \in DOMAIN connection_user :
           c \in MembersIn(user_connections, connection_user[c])
    /\ \A i \in DictLive(user_roles) :
           MembersIn(user_connections, user_roles[i].k) # {}
    /\ GetConnectionStats.total_connections = SumSizes(user_connections, 1)

\* A channel is registered for an identity of the role cache after another
\* channel was unregistered and a message was fanned out.
C22_Witness ==
    /\ \E i \in DictLive(user_roles) :
           MembersIn(user_connections, user_roles[i].k) # {}
    /\ \E c \in IssuedIds : ~Registered(c)
    /\ \E k \in DOMAIN sends : sends[k].status = "returned"

\* C23: each client's window is in non-decreasing order of time, and once a
\* request has passed the purge, no timestamp left in the window is more
\* than 60 s older than the time the request read, also when the wall clock
\* was set back between two requests.
C23_WindowOrderedAndFresh ==
    \A c \in ClientIds :
        /\ \A i, j \in DOMAIN clients[c].requests :
               i < j => clients[c].requests[i] <= clients[c].requests[j]
        /\ \A k \in DOMAIN log[c] :
               log[c][k].outcome # "blocked" =>
                   \A i \in DOMAIN log[c][k].after.requests :
                       log[c][k].after.requests[i] >= log[c][k].t - Sec(WindowSeconds)

\* C24: no two connects are given the same channel id, whether or not the
\* earlier id is still registered, whatever the identities' names and
\* however the connects interleave.
C24_IdsUnique ==
    \A i, j \in DOMAIN heap.issued :
        i # j => heap.issued[i].id # heap.issued[j].id

\* Ids were issued to the identities "u1" and "u1_0" in two connects that
\* are both still pending, and one of the ids is unregistered again.
C24_Witness ==
    /\ Len(heap.issued) >= 2
    /\ \E i, j \in DOMAIN heap.issued :
           /\ heap.issued[i].user_id = <<"u1">>
           /\ heap.issued[j].user_id = <<"u1", "0">>
    /\ \E c \in IssuedIds : ~Registered(c)
    /\ \A t \in Tasks : stacks[t] # <<>> /\ stacks[t][1].fn = "connect"
                           /\ stacks[t][1].pc # "accept"

\* C25: with requests decided one at a time, no client's window ever holds
\* more than requests_per_minute timestamps, and every block that is applied
\* lasts 60 s: the answer says retry_after 60 and blocked_until is the
\* arrival time plus 60 s, never 120 s or 300 s.
C25_OnlyMinorBlocks ==
    \A c \in ClientIds :
        /\ Len(clients[c].requests) <= requests_per_minute
        /\ \A k \in DOMAIN log[c] :
               LET e == log[c][k] IN
               /\ Len(e.after.requests) <= requests_per_minute
               /\ e.outcome = "limited" =>
                      /\ e.retry_after = Some(MinorBlock)
                      /\ e.after.blocked_until = Some(e.t + Sec(MinorBlock))

\* A client was blocked with its window full, where the count is nearest
\* to the escalation thresholds, and the block ends 60 s after the arrival.
C25_Witness ==
    \E c \in ClientIds : \E k \in DOMAIN log[c] :
        /\ log[c][k].outcome = "limited"
        /\ Len(log[c][k].after.requests) = requests_per_minute
        /\ log[c][k].after.blocked_until = Some(log[c][k].t + Sec(MinorBlock))

\* The number of requests of the first i runs of answers that were denied.
RECURSIVE DeniedCount(_, _)
DeniedCount(answers, i) ==
    IF i = 0 THEN 0
    ELSE (IF answers[i].admitted THEN 0 ELSE answers[i].n) + DeniedCount(answers, i - 1)

\* C26: in AdvancedRateLimitMiddleware every denied request, one arriving
\* during a block included, sets blocked_until to its arrival time plus 60 s
\* and counts one violation; so after a client's first denial no request of
\* it is admitted unless two consecutive requests since then were 60 s or
\* more apart.
C26_DenialExtendsBlock ==
    LET answers == advanced.log IN
    /\ advanced.client.violations = DeniedCount(answers, Len(answers))
    /\ (answers # <<>> /\ ~answers[Len(answers)].admitted) =>
           advanced.client.blocked_until =
               Some(answers[Len(answers)].time + AdvancedBlock)
    /\ \A i, j \in DOMAIN answers :
           (i < j /\ ~answers[i].admitted /\ answers[j].admitted) =>
               \E k \in i..(j - 1) :
                   answers[k + 1].time - answers[k].time >= AdvancedBlock

\* A request is denied 60 s or more after the client's first denial, the
\* requests in between having kept the block running.
C26_Witness ==
    LET answers == advanced.log IN
    \E i, j \in DOMAIN answers :
        /\ i < j
        /\ ~answers[i].admitted
        /\ ~answers[j].admitted
        /\ answers[j].time >= answers[i].time + AdvancedBlock
        /\ \A k \in i..(j - 1) : ~answers[k + 1].admitted
               /\ answers[k + 1].time - answers[k].time < AdvancedBlock

\* The first time at which a request of a client in state cl is neither
\* inside its block nor within 60 s of a timestamp of its window.
RecoveryTime(cl) ==
    LET free == IF cl.blocked_until = None THEN clock ELSE Max(clock, cl.blocked_until[1])
    IN  IF cl.requests = <<>> THEN free
        ELSE Max(free, cl.requests[Len(cl.requests)] + Sec(WindowSeconds) + 1)

\* C27: a request that arrives at or after the client's blocked_until, if
\* there is one, and more than 60 s after the client's last admitted request
\* is admitted; so in every state each client has a time from which its
\* next request is admitted, however it was treated before.
C27_Recovery ==
    \A c \in ClientIds :
        /\ \A i \in DOMAIN log[c] :
               LET e == log[c][i] IN
               (/\ e.before.blocked_until # None => e.t >= e.before.blocked_until[1]
                /\ \A j \in 1..(i - 1) :
                       log[c][j].outcome = "admitted" =>
                           e.t - log[c][j].t > Sec(WindowSeconds))
               => e.outcome = "admitted"
        /\ Decision(clients[c], RecoveryTime(clients[c])).outcome = "admitted"

\* A client that was admitted and then blocked is admitted again, more than
\* 60 s after its last admitted request and not before the block's end.
C27_Witness ==
    \E c \in ClientIds : \E i \in DOMAIN log[c] :
        LET e == log[c][i] IN
        /\ e.outcome = "admitted"
        /\ e.before.blocked_until # None
        /\ e.t >= e.before.blocked_until[1]
        /\ \E j \in 1..(i - 1) : log[c][j].outcome = "admitted"
        /\ \A j \in 1..(i - 1) :
               log[c][j].outcome = "admitted" => e.t - log[c][j].t > Sec(WindowSeconds)

\* C28: the 'connection' acknowledgement of a connect reaches the socket of
\* the new channel only: every acknowledgement a socket has received names
\* the channel id that was issued to that socket.
C28_AckToNewChannelOnly ==
    \A i \in DOMAIN heap.issued :
        \A k \in DOMAIN sockets[heap.issued[i].ws].inbox :
            LET msg == sockets[heap.issued[i].ws].inbox[k] IN
            msg.type = "connection" => msg.connection_id = heap.issued[i].id

\* C29: a user_online announcement about u is delivered only while u has a
\* registered channel; a connect whose acknowledgement failed, so that the
\* new and only channel of u was unregistered and u announced offline, does
\* not announce u online afterwards.
C29_OnlineOnlyWhileRegistered ==
    [][\A w \in DOMAIN sockets : \A u \in Users :
           OnlineCopies(w, u)' > OnlineCopies(w, u) => ChannelsOf(u) # {}]_vars

\* The task whose endpoint has seen its session end steps through its
\* cleanup.
InCleanup(t) ==
    /\ stacks[t] # <<>>
    /\ stacks[t][1].fn = "websocket_endpoint"
    /\ stacks[t][1].pc \in {"receiving", "finished"}
    /\ stacks'[t] # stacks[t]

\* C30: the cleanup of the endpoint of a session of identity u unregisters
\* no channel and closes no socket of a channel that belongs to another
\* identity, whatever names the paths give, a name that reads like another
\* identity's channel id included.
C30_CleanupKeepsToOwnIdentity ==
    [][\A t \in Tasks :
           InCleanup(t) =>
               \A i \in DOMAIN heap.issued :
                   LET e == heap.issued[i] IN
                   e.user_id # stacks[t][1].user_id =>
                       /\ Registered(e.id) => Registered(e.id)'
                       /\ sockets[e.ws].state # "closed" =>
                              sockets'[e.ws].state # "closed"]_vars

====
